---------------------------- MODULE Spec2Model ----------------------------
(***************************************************************************)
(* A model of kipoiseq/datasets/sequence.py: the interval table            *)
(* (BedDataset), the string dataset built on it (SeqStringDataset) and the *)
(* one-hot encoded dataset (SeqDataset).                                   *)
(*                                                                         *)
(* Python values are modelled as follows.                                  *)
(*   - a str is the sequence of its characters (<<"c","h","r","1">>);      *)
(*   - an optional argument is <<>> (None) or <<v>> (the value v);         *)
(*   - a table row is the sequence of its columns, chromosome first;       *)
(*   - a numpy array is its shape together with its values, a function     *)
(*     from 0-based index tuples to numbers.                               *)
(***************************************************************************)
EXTENDS Integers, Sequences, FiniteSets, TLC

VARIABLES
    tsv,               \* the rows of tsv_file, in file order
    cfg,               \* the constructor's arguments
    pc,                \* "new", "ready" (constructed) or "failed" (__init__ raised)
    df,                \* BedDataset.df: the rows kept, each with its pandas index
    n_tasks,           \* BedDataset.n_tasks
    alphabet,          \* SeqDataset.alphabet
    fasta_extractors,  \* SeqStringDataset.fasta_extractors: None or the handle
    nConstructed,      \* how many FastaStringExtractor objects were constructed
    first,             \* the first __getitem__ call made: None, or its index and outcome
    usedHandle,        \* the id of the extractor the last extraction went through
    prevKind,          \* how the call before the last one ended ("none": there is none)
    lastIdx,           \* the index of the last __getitem__ call
    ret,               \* the outcome of the last call: a value or the exception
    thr                \* the threads calling __getitem__ concurrently

vars == <<tsv, cfg, pc, df, n_tasks, alphabet, fasta_extractors, nConstructed,
          first, usedHandle, prevKind, lastIdx, ret, thr>>

---------------------------------------------------------------------------
(* Bounds of the model. *)

\* the longest tsv_file, in rows
MaxRows == 3
\* the longest tsv_file handed to SeqStringDataset and SeqDataset, in rows
MaxSeqRows == 2
\* the number of threads sharing one SeqStringDataset
NThreads == 2

---------------------------------------------------------------------------
(* Python values. *)

None == <<>>
Some(v) == <<v>>
IsNone(x) == x = <<>>
Val(x) == x[1]


chr == <<"c", "h", "r">>

\* str.startswith("chr")
StartsWithChr(s) == Len(s) >= 3 /\ SubSeq(s, 1, 3) = chr

\* str.replace("^chr", "") with the pattern read as a regular expression:
\* the prefix is removed where it is there
StripChr(s) == IF StartsWithChr(s) THEN SubSeq(s, 4, Len(s)) ELSE s

\* "chr" + s
PrependChr(s) == chr \o s

Digit(d) == <<"0", "1", "2", "3", "4", "5", "6", "7", "8", "9">>[d + 1]

RECURSIVE StrNat(_)
StrNat(n) == IF n < 10 THEN <<Digit(n)>> ELSE StrNat(n \div 10) \o <<Digit(n % 10)>>

\* str(idx) of an int
Str(n) == IF n < 0 THEN <<"-">> \o StrNat(-n) ELSE StrNat(n)

---------------------------------------------------------------------------
(* BedDataset. *)

\* a row of the table as pandas holds it: its index (the 0-based line of the
\* file, which filtering keeps) and its columns
FileRows(file) == [i \in 1..Len(file) |-> [index |-> i - 1, cols |-> file[i]]]

WithChrom(row, c) == [row EXCEPT !.cols[1] = c]

\* self.df[0] = self.df[0].str.replace("^chr", "")
StripColumn(rows) == [i \in 1..Len(rows) |-> WithChrom(rows[i], StripChr(rows[i].cols[1]))]

\* self.df[0] = "chr" + self.df[0]
PrependColumn(rows) == [i \in 1..Len(rows) |-> WithChrom(rows[i], PrependChr(rows[i].cols[1]))]

\* (mutant) the prefix is looked for in every row, not in the first one
NormalizeChromPerRow(rows, num_chr) ==
    [i \in 1..Len(rows) |->
        IF num_chr /\ StartsWithChr(rows[i].cols[1])
          THEN WithChrom(rows[i], StripChr(rows[i].cols[1]))
        ELSE IF ~num_chr /\ ~StartsWithChr(rows[i].cols[1])
          THEN WithChrom(rows[i], PrependChr(rows[i].cols[1]))
        ELSE rows[i]]

\* the two ifs on self.df.iloc[0][0], one after the other
NormalizeChrom(rows, num_chr) ==
    LET a == IF num_chr /\ StartsWithChr(rows[1].cols[1]) THEN StripColumn(rows) ELSE rows
    IN  IF ~num_chr /\ ~StartsWithChr(a[1].cols[1]) THEN PrependColumn(a) ELSE a

\* (mutant) np.any in the place of np.all
AnyAmbiguous(row, bed_columns, mask) ==
    \E j \in (bed_columns + 1)..Len(row.cols) : row.cols[j] = mask

\* np.all(self.df.iloc[:, self.bed_columns:] == ambiguous_mask, axis=1), of one row
AllAmbiguous(row, bed_columns, mask) ==
    \A j \in (bed_columns + 1)..Len(row.cols) : row.cols[j] = mask

FilterAmbiguous(rows, bed_columns, ambiguous_mask) ==
    IF IsNone(ambiguous_mask) THEN rows
    ELSE SelectSeq(rows, LAMBDA r : ~AllAmbiguous(r, bed_columns, Val(ambiguous_mask)))

FilterIncl(rows, incl_chromosomes) ==
    IF IsNone(incl_chromosomes) THEN rows
    ELSE SelectSeq(rows, LAMBDA r : r.cols[1] \in Val(incl_chromosomes))

FilterExcl(rows, excl_chromosomes) ==
    IF IsNone(excl_chromosomes) THEN rows
    ELSE SelectSeq(rows, LAMBDA r : r.cols[1] \notin Val(excl_chromosomes))

\* BedDataset.__init__: what it leaves in self.df and self.n_tasks, or that
\* it raised (an empty file, or fewer columns than bed_columns)
BedDatasetInit(file, c) ==
    IF file = <<>> THEN [ok |-> FALSE, df |-> <<>>, n_tasks |-> 0]
    ELSE LET nt == Len(file[1]) - c.bed_columns
         IN  IF nt < 0 THEN [ok |-> FALSE, df |-> <<>>, n_tasks |-> nt]
             ELSE [ok |-> TRUE,
                   n_tasks |-> nt,
                   df |-> FilterExcl(
                            FilterIncl(
                              FilterAmbiguous(NormalizeChrom(FileRows(file), c.num_chr),
                                              c.bed_columns, c.ambiguous_mask),
                              c.incl_chromosomes),
                            c.excl_chromosomes)]

\* (mutant) an indexer that takes no negative index
ILocFromZero(n, idx) == IF 0 <= idx /\ idx < n THEN idx + 1 ELSE 0

\* self.df.iloc[idx]: the position in df that idx addresses, 0 when there is none
ILoc(n, idx) ==
    IF 0 <= idx /\ idx < n THEN idx + 1
    ELSE IF -n <= idx /\ idx < 0 THEN n + idx + 1
    ELSE 0

\* pybedtools.create_interval_from_list of the first bed_columns columns
Interval(fields) == [chrom |-> fields[1], start |-> fields[2], stop |-> fields[3],
                     rest |-> SubSeq(fields, 4, Len(fields))]

\* BedDataset.__getitem__: (interval, labels), or IndexError
BedGetItem(table, bed_columns, idx) ==
    LET k == ILoc(Len(table), idx)
    IN  IF k = 0 THEN [kind |-> "IndexError"]
        ELSE [kind |-> "ok",
              interval |-> Interval(SubSeq(table[k].cols, 1, bed_columns)),
              labels |-> SubSeq(table[k].cols, bed_columns + 1, Len(table[k].cols))]

\* BedDataset.__len__
BedLen(table) == Len(table)

---------------------------------------------------------------------------
(* The collaborators of SeqStringDataset: kipoiseq.transforms.functional's  *)
(* resize_interval and kipoiseq.extractors' FastaStringExtractor.           *)

\* resize_interval(interval, anchor, width): a new interval of that width, or
\* the failure for an anchor that is none of the three
ResizeInterval(interval, anchor, width) ==
    IF anchor = "start"
      THEN [ok |-> TRUE, interval |-> [interval EXCEPT !.stop = interval.start + width]]
    ELSE IF anchor = "end"
      THEN [ok |-> TRUE, interval |-> [interval EXCEPT !.start = interval.stop - width]]
    ELSE IF anchor = "center"
      THEN LET s == (interval.start + interval.stop - width) \div 2
           IN  [ok |-> TRUE, interval |-> [interval EXCEPT !.start = s, !.stop = s + width]]
    ELSE [ok |-> FALSE, interval |-> interval]

\* the reference sequence of fasta_file, the same for every chromosome name
Genome == <<"a", "C", "g", "T", "N", "A", "c", "G", "t", "n", "A", "C">>

\* str.upper() of one character
Upper(ch) ==
    CASE ch = "a" -> "A" [] ch = "c" -> "C" [] ch = "g" -> "G" [] ch = "t" -> "T"
      [] ch = "n" -> "N" [] OTHER -> ch

\* FastaStringExtractor(fasta_file, use_strand, force_upper), the k-th one made
FastaStringExtractor(k, use_strand, force_upper) ==
    [id |-> k, use_strand |-> use_strand, force_upper |-> force_upper]

\* extractor.extract(interval): the bases start..stop-1 (0-based), upper-cased
\* when force_upper. A BED3 interval has no strand, so nothing is
\* reverse-complemented.
Extract(extractor, interval) ==
    LET raw == SubSeq(Genome, interval.start + 1, interval.stop)
    IN  IF extractor.force_upper THEN [i \in 1..Len(raw) |-> Upper(raw[i])] ELSE raw

---------------------------------------------------------------------------
(* SeqStringDataset. *)

\* SeqStringDataset.__init__: the BedDataset it builds, with bed_columns=3 and
\* no filter
SeqStringDatasetInit(file, c) ==
    BedDatasetInit(file, [bed_columns |-> 3, num_chr |-> c.num_chr_fasta,
                          ambiguous_mask |-> None, incl_chromosomes |-> None,
                          excl_chromosomes |-> None])

\* (mutant) the test for None is lost: every call makes an extractor
EnsureExtractorAlways(handle, made, c) ==
    Some(FastaStringExtractor(made + 1, c.use_strand, c.force_upper))

\* (mutant) an extractor that is there is replaced by one with default options
EnsureExtractorDefaults(handle, made, c) ==
    IF IsNone(handle) THEN Some(FastaStringExtractor(made + 1, c.use_strand, c.force_upper))
    ELSE Some(FastaStringExtractor(made, FALSE, FALSE))

\* the first statement of __getitem__: the extractor is made when there is none
EnsureExtractor(handle, made, c) ==
    IF IsNone(handle) THEN Some(FastaStringExtractor(made + 1, c.use_strand, c.force_upper))
    ELSE handle

\* (mutant) the resized interval is computed and dropped
RequiredIntervalNotAssigned(interval, c) ==
    IF ~IsNone(c.required_seq_len)
         /\ ~(interval.stop - interval.start = Val(c.required_seq_len))
         /\ IsNone(c.auto_resize)
      THEN [ok |-> FALSE, interval |-> interval]
      ELSE [ok |-> TRUE, interval |-> interval]

\* (mutant) a wrong length raises whatever auto_resize is
RequiredIntervalNoResize(interval, c) ==
    IF ~IsNone(c.required_seq_len)
         /\ ~(interval.stop - interval.start = Val(c.required_seq_len))
      THEN [ok |-> FALSE, interval |-> interval]
      ELSE [ok |-> TRUE, interval |-> interval]

\* the interval __getitem__ extracts from: the row's, the resized one, or the
\* failure when the length is wrong and auto_resize is None
RequiredInterval(interval, c) ==
    IF ~IsNone(c.required_seq_len)
      THEN IF ~(interval.stop - interval.start = Val(c.required_seq_len))
             THEN IF ~IsNone(c.auto_resize)
                    THEN ResizeInterval(interval, Val(c.auto_resize), Val(c.required_seq_len))
                    ELSE [ok |-> FALSE, interval |-> interval]
             ELSE [ok |-> TRUE, interval |-> interval]
      ELSE [ok |-> TRUE, interval |-> interval]

\* GenomicRanges(interval.chrom, interval.start, interval.stop, str(idx))
GenomicRanges(interval, idx) ==
    [chrom |-> interval.chrom, start |-> interval.start, stop |-> interval.stop,
     id |-> Str(idx)]

\* SeqStringDataset.__getitem__ after the extractor is there: the record, or
\* the exception raised (the Exception of line 227 and resize_interval's
\* failure are both the ConfigurationError of the specification)
SeqStringGetItem(table, handle, c, idx) ==
    LET row == BedGetItem(table, 3, idx)
    IN  IF row.kind # "ok" THEN row
        ELSE LET r == RequiredInterval(row.interval, c)
             IN  IF ~r.ok THEN [kind |-> "ConfigurationError"]
                 ELSE [kind |-> "ok",
                       inputs |-> Extract(Val(handle), r.interval),
                       targets |-> row.labels,
                       ranges |-> GenomicRanges(r.interval, idx)]

---------------------------------------------------------------------------
(* numpy arrays and the transforms of kipoiseq.transforms. *)

RECURSIVE MaxOf(_)
MaxOf(shape) == IF shape = <<>> THEN 0
                ELSE LET m == MaxOf(Tail(shape))
                     IN  IF Head(shape) > m THEN Head(shape) ELSE m

\* the index tuples of an array of that shape, 0-based
Indices(shape) ==
    {ix \in [1..Len(shape) -> 0..(MaxOf(shape) - 1)] :
        \A k \in 1..Len(shape) : ix[k] < shape[k]}

Array(shape, val) == [ok |-> TRUE, shape |-> shape, val |-> val]

AxisError == [ok |-> FALSE, shape |-> <<>>, val |-> <<>>]

\* alphabet.index(ch) + 1, or 0 when ch is not in the alphabet
RECURSIVE IndexOf(_, _)
IndexOf(alpha, ch) ==
    IF alpha = <<>> THEN 0
    ELSE IF Head(alpha) = ch THEN 1
    ELSE LET k == IndexOf(Tail(alpha), ch) IN IF k = 0 THEN 0 ELSE k + 1

\* OneHot(alphabet)(seq): axis 0 is the position, axis 1 the symbol; a
\* character outside the alphabet gives a row of zeros
OneHot(alpha, seq) ==
    LET shape == <<Len(seq), Len(alpha)>>
    IN  Array(shape, [ix \in Indices(shape) |->
                        IF IndexOf(alpha, seq[ix[1] + 1]) = ix[2] + 1 THEN 1 ELSE 0])

InsertAt(s, k, e) == SubSeq(s, 1, k) \o <<e>> \o SubSeq(s, k + 1, Len(s))

RemoveAt(s, k) == SubSeq(s, 1, k - 1) \o SubSeq(s, k + 1, Len(s))

SwapAt(s, i, j) == [k \in 1..Len(s) |-> IF k = i THEN s[j] ELSE IF k = j THEN s[i] ELSE s[k]]

\* DummyAxis(axis)(x): x itself when axis is None, else np.expand_dims(x, axis)
DummyAxis(axis, x) ==
    IF ~x.ok \/ IsNone(axis) THEN x
    ELSE IF Val(axis) > Len(x.shape) THEN AxisError
    ELSE LET shape == InsertAt(x.shape, Val(axis), 1)
         IN  Array(shape, [ix \in Indices(shape) |-> x.val[RemoveAt(ix, Val(axis) + 1)]])

\* SwapAxes(axis1, axis2)(x): np.swapaxes(x, axis1, axis2)
SwapAxes(axis1, axis2, x) ==
    IF ~x.ok \/ axis1 = axis2 THEN x
    ELSE IF axis1 >= Len(x.shape) \/ axis2 >= Len(x.shape) THEN AxisError
    ELSE LET shape == SwapAt(x.shape, axis1 + 1, axis2 + 1)
         IN  Array(shape, [ix \in Indices(shape) |-> x.val[SwapAt(ix, axis1 + 1, axis2 + 1)]])

---------------------------------------------------------------------------
(* SeqDataset. *)

\* a str argument and a list argument of the constructor
PyStr(chars) == [isstr |-> TRUE, items |-> chars]
PyList(items) == [isstr |-> FALSE, items |-> items]

\* parse_alphabet: a str is split with the empty separator, which str.split
\* refuses (ValueError: empty separator); anything else is returned as it is
ParseAlphabet(a) ==
    IF a.isstr THEN [ok |-> FALSE, alphabet |-> <<>>]
    ELSE [ok |-> TRUE, alphabet |-> a.items]

\* the arguments SeqDataset.__init__ hands to SeqStringDataset
StringDatasetArgs(c) ==
    [num_chr_fasta |-> c.num_chr_fasta, required_seq_len |-> c.required_seq_len,
     auto_resize |-> c.auto_resize, use_strand |-> c.use_strand, force_upper |-> TRUE]

\* self.input_tranform: Compose([OneHot, DummyAxis, SwapAxes(1, alphabet_axis)])
InputTransform(alpha, c, seq) ==
    SwapAxes(1, c.alphabet_axis, DummyAxis(c.dummy_axis, OneHot(alpha, seq)))

\* SeqDataset.__getitem__ after the extractor is there
SeqGetItem(table, handle, alpha, c, idx) ==
    LET r == SeqStringGetItem(table, handle, StringDatasetArgs(c), idx)
    IN  IF r.kind # "ok" THEN r
        ELSE LET x == InputTransform(alpha, c, r.inputs)
             IN  IF ~x.ok THEN [kind |-> "AxisError"]
                 ELSE [r EXCEPT !.inputs = x]

---------------------------------------------------------------------------
(* The inputs. *)

Chr1 == <<"c", "h", "r", "1">>
Chr2 == <<"c", "h", "r", "2">>
One == <<"1">>

\* the rows of a file with ncols columns: chromosome, start, stop and then
\* columns holding 0 or 1, the last of them 0
BedRows(ncols) ==
    {<<c, 10, 20>> \o x : c \in {One, Chr1, Chr2},
                          x \in {y \in [1..(ncols - 3) -> {0, 1}] : ncols > 3 => y[ncols - 3] = 0}}

FilesOf(rows, maxlen) == UNION {[1..n -> rows] : n \in 0..maxlen}

BedFiles == UNION {FilesOf(BedRows(ncols), MaxRows) : ncols \in {3, 5}}

BedConfigs ==
    [cls : {"BedDataset"},
     bed_columns : {3, 4},
     num_chr : BOOLEAN,
     ambiguous_mask : {None, Some(0)},
     incl_chromosomes : {None, Some({Chr1, One})},
     excl_chromosomes : {None, Some({Chr2, One})}]

\* rows whose intervals have the lengths 2, 3 and 4
SeqRows(ncols) ==
    {<<c, iv[1], iv[2]>> \o x : c \in {One}, iv \in {<<4, 6>>, <<5, 8>>, <<3, 7>>},
                                 x \in [1..(ncols - 3) -> {1}]}

\* the files handed to SeqStringDataset: rows with one label
SeqFiles == FilesOf(SeqRows(4), MaxSeqRows)

\* auto_resize is given every value, an unknown anchor included, where
\* required_seq_len is set, and two values where it is not
SeqStringConfigs ==
    {c \in [cls : {"SeqStringDataset"},
            num_chr_fasta : BOOLEAN,
            required_seq_len : {None, Some(3)},
            auto_resize : {None, Some("start"), Some("end"), Some("center"), Some("middle")},
            use_strand : {FALSE},
            force_upper : BOOLEAN] :
        IsNone(c.required_seq_len) => c.auto_resize \in {None, Some("center")}}

Alphabets == {PyStr(<<"A", "C", "G", "T">>), PyList(<<"A", "C", "G", "T">>),
              PyList(<<"T", "A", "C">>)}

SeqConfigs ==
    {c \in [cls : {"SeqDataset"},
            num_chr_fasta : {FALSE},
            required_seq_len : {None, Some(3)},
            auto_resize : {None, Some("center")},
            use_strand : {FALSE},
            alphabet_axis : 0..2,
            dummy_axis : {None} \cup {Some(a) : a \in 0..3},
            alphabet : Alphabets] : IsNone(c.required_seq_len) <=> IsNone(c.auto_resize)}

\* the files handed to SeqDataset: at most one row, without labels
EncFiles == FilesOf(SeqRows(3), 1)

\* the indexes tried on a table of n rows: those of its rows, the negative
\* ones and one more at either end
Indexes(n) == (-(n + 1))..(n + 1)

Threads == 1..NThreads

---------------------------------------------------------------------------
(* The state machine. *)

NoRet == [kind |-> "none"]

InitWith(files, configs) ==
    /\ tsv \in files
    /\ cfg \in configs
    /\ pc = "new"
    /\ df = <<>>
    /\ n_tasks = 0
    /\ alphabet = <<>>
    /\ fasta_extractors = None
    /\ nConstructed = 0
    /\ first = None
    /\ usedHandle = None
    /\ prevKind = "none"
    /\ lastIdx = None
    /\ ret = NoRet
    /\ thr = [t \in Threads |-> [pc |-> "idle", idx |-> 0, sawNone |-> FALSE,
                                 built |-> 0, ret |-> NoRet]]

Init ==
    \/ InitWith(BedFiles, BedConfigs)
    \/ InitWith(SeqFiles, SeqStringConfigs)
    \/ InitWith(EncFiles, SeqConfigs)

\* BedDataset(tsv_file, ...)
BedNew ==
    /\ pc = "new"
    /\ cfg.cls = "BedDataset"
    /\ LET r == BedDatasetInit(tsv, cfg)
       IN  /\ pc' = IF r.ok THEN "ready" ELSE "failed"
           /\ df' = r.df
           /\ n_tasks' = r.n_tasks
    /\ UNCHANGED <<tsv, cfg, alphabet, fasta_extractors, nConstructed, first,
                   usedHandle, prevKind, lastIdx, ret, thr>>

\* bed[idx]
BedGet(idx) ==
    /\ pc = "ready"
    /\ cfg.cls = "BedDataset"
    /\ lastIdx' = Some(idx)
    /\ ret' = BedGetItem(df, cfg.bed_columns, idx)
    /\ UNCHANGED <<tsv, cfg, pc, df, n_tasks, alphabet, fasta_extractors,
                   nConstructed, first, usedHandle, prevKind, thr>>

\* SeqStringDataset(intervals_file, fasta_file, ...)
SeqStringNew ==
    /\ pc = "new"
    /\ cfg.cls = "SeqStringDataset"
    /\ LET r == SeqStringDatasetInit(tsv, cfg)
       IN  /\ pc' = IF r.ok THEN "ready" ELSE "failed"
           /\ df' = r.df
           /\ n_tasks' = r.n_tasks
    /\ fasta_extractors' = None
    /\ UNCHANGED <<tsv, cfg, alphabet, nConstructed, first, usedHandle, prevKind, lastIdx, ret, thr>>

\* how many extractors there are after the first statement of __getitem__
Constructed(handle, made) == IF IsNone(handle) THEN made + 1 ELSE made

\* dataset[idx] on a SeqStringDataset
SeqStringGet(idx) ==
    /\ pc = "ready"
    /\ cfg.cls = "SeqStringDataset"
    /\ fasta_extractors' = EnsureExtractor(fasta_extractors, nConstructed, cfg)
    /\ nConstructed' = Constructed(fasta_extractors, nConstructed)
    /\ lastIdx' = Some(idx)
    /\ ret' = SeqStringGetItem(df, fasta_extractors', cfg, idx)
    /\ usedHandle' = IF ret'.kind = "ok" THEN Some(Val(fasta_extractors').id) ELSE usedHandle
    /\ prevKind' = ret.kind
    /\ first' = IF IsNone(first) THEN Some([idx |-> idx, ret |-> ret']) ELSE first
    /\ UNCHANGED <<tsv, cfg, pc, df, n_tasks, alphabet, thr>>

\* SeqDataset(intervals_file, fasta_file, ...)
SeqNew ==
    /\ pc = "new"
    /\ cfg.cls = "SeqDataset"
    /\ LET a == ParseAlphabet(cfg.alphabet)
           r == SeqStringDatasetInit(tsv, StringDatasetArgs(cfg))
       IN  IF ~a.ok
             THEN pc' = "failed" /\ UNCHANGED <<alphabet, df, n_tasks>>
             ELSE /\ alphabet' = a.alphabet
                  /\ pc' = IF r.ok THEN "ready" ELSE "failed"
                  /\ df' = r.df
                  /\ n_tasks' = r.n_tasks
    /\ UNCHANGED <<tsv, cfg, fasta_extractors, nConstructed, first, usedHandle, prevKind,
                   lastIdx, ret, thr>>

\* dataset[idx] on a SeqDataset
SeqGet(idx) ==
    /\ pc = "ready"
    /\ cfg.cls = "SeqDataset"
    /\ fasta_extractors' = EnsureExtractor(fasta_extractors, nConstructed, StringDatasetArgs(cfg))
    /\ nConstructed' = Constructed(fasta_extractors, nConstructed)
    /\ lastIdx' = Some(idx)
    /\ ret' = SeqGetItem(df, fasta_extractors', alphabet, cfg, idx)
    /\ usedHandle' = IF ret'.kind \in {"ok", "AxisError"} THEN Some(Val(fasta_extractors').id)
                     ELSE usedHandle
    /\ prevKind' = ret.kind
    /\ first' = IF IsNone(first) THEN Some([idx |-> idx, ret |-> ret']) ELSE first
    /\ UNCHANGED <<tsv, cfg, pc, df, n_tasks, alphabet, thr>>

Next ==
    \/ BedNew
    \/ \E idx \in Indexes(Len(df)) : BedGet(idx)
    \/ SeqStringNew
    \/ \E idx \in Indexes(Len(df)) : SeqStringGet(idx)
    \/ SeqNew
    \/ \E idx \in Indexes(Len(df)) : SeqGet(idx)

Spec == Init /\ [][Next]_vars

---------------------------------------------------------------------------
(* Threads calling __getitem__ on one SeqStringDataset with no lock: each   *)
(* statement of lines 216-218 is a step of its own, the rest of the call    *)
(* another.                                                                 *)

RaceFiles == {f \in FilesOf(SeqRows(3), 1) : f # <<>>}

RaceConfigs ==
    [cls : {"SeqStringDataset"},
     num_chr_fasta : {FALSE},
     required_seq_len : {None, Some(3)},
     auto_resize : {None, Some("start")},
     use_strand : {FALSE},
     force_upper : BOOLEAN]

InitRace == InitWith(RaceFiles, RaceConfigs)

\* line 216: if self.fasta_extractors is None
ThreadCheck(t, idx) ==
    /\ pc = "ready"
    /\ thr[t].pc = "idle"
    /\ thr' = [thr EXCEPT ![t].idx = idx,
                          ![t].sawNone = IsNone(fasta_extractors),
                          ![t].pc = IF IsNone(fasta_extractors) THEN "construct" ELSE "body"]
    /\ UNCHANGED <<tsv, cfg, pc, df, n_tasks, alphabet, fasta_extractors, nConstructed,
                   first, usedHandle, prevKind, lastIdx, ret>>

\* (mutant) the test is made again before the extractor is made
MakeExtractorOnce(handle, made, c) ==
    IF IsNone(handle) THEN Some(FastaStringExtractor(made + 1, c.use_strand, c.force_upper))
    ELSE handle

\* lines 217-218, reached after the test of line 216 found None: the
\* extractor is made and stored, whatever self.fasta_extractors holds by now
MakeExtractor(handle, made, c) ==
    Some(FastaStringExtractor(made + 1, c.use_strand, c.force_upper))

ThreadConstruct(t) ==
    /\ thr[t].pc = "construct"
    /\ fasta_extractors' = MakeExtractor(fasta_extractors, nConstructed, cfg)
    /\ nConstructed' = nConstructed + 1
    /\ thr' = [thr EXCEPT ![t].built = nConstructed + 1, ![t].pc = "body"]
    /\ UNCHANGED <<tsv, cfg, pc, df, n_tasks, alphabet, first, usedHandle, prevKind, lastIdx, ret>>

\* lines 220-243
ThreadBody(t) ==
    /\ thr[t].pc = "body"
    /\ thr' = [thr EXCEPT ![t].ret = SeqStringGetItem(df, fasta_extractors, cfg, thr[t].idx),
                          ![t].pc = "done"]
    /\ UNCHANGED <<tsv, cfg, pc, df, n_tasks, alphabet, fasta_extractors, nConstructed,
                   first, usedHandle, prevKind, lastIdx, ret>>

NextRace ==
    \/ SeqStringNew
    \/ \E t \in Threads, idx \in Indexes(Len(df)) : ThreadCheck(t, idx)
    \/ \E t \in Threads : ThreadConstruct(t)
    \/ \E t \in Threads : ThreadBody(t)

SpecRace == InitRace /\ [][NextRace]_vars

---------------------------------------------------------------------------
(* What the properties below read off the state. *)

IsBed == cfg.cls = "BedDataset"
IsSeqString == cfg.cls = "SeqStringDataset"
IsSeq == cfg.cls = "SeqDataset"

NumChr == IF IsBed THEN cfg.num_chr ELSE cfg.num_chr_fasta
BedColumns == IF IsBed THEN cfg.bed_columns ELSE 3

Called == ~IsNone(lastIdx)
Idx == Val(lastIdx)

\* the chromosome name of line i of the file (1-based) after the one decision
\* taken from the first line
NormalizedName(i) ==
    LET name == tsv[i][1]
        sniff == StartsWithChr(tsv[1][1])
    IN  IF NumChr /\ sniff
          THEN (IF StartsWithChr(name) THEN SubSeq(name, 4, Len(name)) ELSE name)
        ELSE IF ~NumChr /\ ~sniff THEN <<"c", "h", "r">> \o name
        ELSE name

\* line i of the file passes every configured filter
PassesFilters(i) ==
    /\ \/ IsNone(cfg.ambiguous_mask)
       \/ \E j \in (cfg.bed_columns + 1)..Len(tsv[i]) : tsv[i][j] # Val(cfg.ambiguous_mask)
    /\ IsNone(cfg.incl_chromosomes) \/ NormalizedName(i) \in Val(cfg.incl_chromosomes)
    /\ IsNone(cfg.excl_chromosomes) \/ NormalizedName(i) \notin Val(cfg.excl_chromosomes)

KeptLines == {i \in 1..Len(tsv) : PassesFilters(i)}

\* the k-th kept line (1-based), in file order
KeptLine(k) == CHOOSE i \in KeptLines : Cardinality({j \in KeptLines : j < i}) = k - 1

\* line i of the file as get returns it
RowOfLine(i) ==
    [kind |-> "ok",
     interval |-> [chrom |-> NormalizedName(i), start |-> tsv[i][2], stop |-> tsv[i][3],
                   rest |-> SubSeq(tsv[i], 4, cfg.bed_columns)],
     labels |-> SubSeq(tsv[i], cfg.bed_columns + 1, Len(tsv[i]))]

\* the axis k (0-based) of x runs over the alphabet: x is the one-hot code of
\* seq with the symbol at axis k, the position at another axis and every
\* further axis of size 1
SymbolAxisAt(x, k, alpha, seq) ==
    /\ k < Len(x.shape)
    /\ x.shape[k + 1] = Len(alpha)
    /\ \E p \in (1..Len(x.shape)) \ {k + 1} :
          /\ x.shape[p] = Len(seq)
          /\ \A q \in (1..Len(x.shape)) \ {k + 1, p} : x.shape[q] = 1
          /\ \A ix \in Indices(x.shape) :
                x.val[ix] = IF IndexOf(alpha, seq[ix[p] + 1]) = ix[k + 1] + 1 THEN 1 ELSE 0

\* the bases of the reference between the coordinates of the returned ranges
BasesOf(ranges, upper) ==
    [i \in 1..(ranges.stop - ranges.start) |->
        IF upper THEN Upper(Genome[ranges.start + i]) ELSE Genome[ranges.start + i]]

\* the row of the table that a valid index addresses
RowAt(idx) == df[idx + 1]

RowLength(idx) == RowAt(idx).cols[3] - RowAt(idx).cols[2]

---------------------------------------------------------------------------
(* C1. The tensor SeqDataset returns has the symbol dimension at axis       *)
(* alphabet_axis, for every alphabet_axis and every dummy_axis; it has 2    *)
(* axes when dummy_axis is None and 3 axes when dummy_axis is 2 and         *)
(* alphabet_axis is 1. The code breaks this when dummy_axis is 0 or 1.      *)
C1_SymbolAxisAtAlphabetAxis ==
    (IsSeq /\ ret.kind = "ok") =>
        /\ SymbolAxisAt(ret.inputs, cfg.alphabet_axis, alphabet, BasesOf(ret.ranges, TRUE))
        /\ IsNone(cfg.dummy_axis) => Len(ret.inputs.shape) = 2
        /\ (cfg.dummy_axis = Some(2) /\ cfg.alphabet_axis = 1) => Len(ret.inputs.shape) = 3

(* C2. After construction the interval table holds exactly the lines of the *)
(* file that pass every configured filter, in file order; length() is their *)
(* number and get(i), for 0 <= i < length(), returns the i-th of them.      *)
C2_TableIsFilteredFile ==
    (IsBed /\ pc = "ready") =>
        /\ BedLen(df) = Cardinality(KeptLines)
        /\ \A k \in 1..Len(df) :
              /\ df[k].index + 1 = KeptLine(k)
              /\ df[k].cols = [tsv[KeptLine(k)] EXCEPT ![1] = NormalizedName(KeptLine(k))]
        /\ (Called /\ 0 <= Idx /\ Idx < BedLen(df)) => ret = RowOfLine(KeptLine(Idx + 1))

C2_Witness ==
    /\ IsBed /\ pc = "ready"
    /\ ~IsNone(cfg.ambiguous_mask) /\ ~IsNone(cfg.incl_chromosomes)
    /\ ~IsNone(cfg.excl_chromosomes)
    /\ Len(tsv) = 3 /\ Len(df) = 2
    /\ df[1].index = 0 /\ df[2].index = 2
    /\ lastIdx = Some(1) /\ ret.kind = "ok" /\ ret.labels = <<1, 0>>

(* C3, as claimed. get(index) fails with IndexError for every index outside *)
(* 0 .. length()-1, every negative index included, and returns a row only   *)
(* for the indexes inside.                                                  *)
C3_IndexErrorOutsideZeroBased ==
    (Called /\ pc = "ready") =>
        /\ ~(0 <= Idx /\ Idx < BedLen(df)) => ret.kind = "IndexError"
        /\ (0 <= Idx /\ Idx < BedLen(df)) => ret.kind # "IndexError"

(* C3, amended. get(index) fails with IndexError exactly for the indexes    *)
(* outside -length() .. length()-1; a negative index in that range          *)
(* addresses the row length() + index.                                      *)
C3_IndexErrorOutsidePythonRange ==
    (Called /\ pc = "ready") =>
        /\ ~(-BedLen(df) <= Idx /\ Idx < BedLen(df)) => ret.kind = "IndexError"
        /\ (-BedLen(df) <= Idx /\ Idx < BedLen(df)) => ret.kind # "IndexError"
        /\ (IsBed /\ -BedLen(df) <= Idx /\ Idx < 0) =>
              ret = [kind |-> "ok",
                     interval |-> Interval(SubSeq(RowAt(BedLen(df) + Idx).cols, 1, BedColumns)),
                     labels |-> SubSeq(RowAt(BedLen(df) + Idx).cols, BedColumns + 1,
                                       Len(RowAt(BedLen(df) + Idx).cols))]

C3_Witness ==
    /\ IsBed /\ pc = "ready" /\ BedLen(df) = 2
    /\ lastIdx = Some(-2) /\ ret.kind = "ok"
    /\ ret.interval.chrom = df[1].cols[1]

(* C4. With required_seq_len set, every record the string dataset returns   *)
(* has stop - start = required_seq_len in its metadata, and its sequence is *)
(* the one between those coordinates.                                       *)
C4_RecordHasRequiredLength ==
    (IsSeqString /\ ret.kind = "ok" /\ ~IsNone(cfg.required_seq_len)) =>
        /\ ret.ranges.stop - ret.ranges.start = Val(cfg.required_seq_len)
        /\ Len(ret.inputs) = Val(cfg.required_seq_len)
        /\ ret.inputs = BasesOf(ret.ranges, cfg.force_upper)

C4_Witness ==
    /\ IsSeqString /\ ret.kind = "ok" /\ lastIdx = Some(0)
    /\ cfg.required_seq_len = Some(3) /\ cfg.auto_resize = Some("center")
    /\ RowLength(0) = 4
    /\ ret.ranges.start = 3 /\ ret.ranges.stop = 6

(* C5, as claimed. For a valid index the string dataset's get fails with    *)
(* ConfigurationError, returning nothing, if and only if required_seq_len   *)
(* is set, the row's length differs from it and auto_resize is unset; a row *)
(* of the required length is returned with its interval unchanged.          *)
C5_FailsIffAutoResizeUnset ==
    (IsSeqString /\ pc = "ready" /\ Called /\ 0 <= Idx /\ Idx < BedLen(df)) =>
        /\ ret.kind = "ConfigurationError" <=>
              /\ ~IsNone(cfg.required_seq_len)
              /\ RowLength(Idx) # Val(cfg.required_seq_len)
              /\ IsNone(cfg.auto_resize)
        /\ ret.kind # "ok" => ret = [kind |-> ret.kind]
        /\ (~IsNone(cfg.required_seq_len) /\ RowLength(Idx) = Val(cfg.required_seq_len)) =>
              /\ ret.kind = "ok"
              /\ ret.ranges.start = RowAt(Idx).cols[2]
              /\ ret.ranges.stop = RowAt(Idx).cols[3]

(* C5, amended. ... if and only if required_seq_len is set, the row's       *)
(* length differs from it and auto_resize is unset or is none of start,     *)
(* end and center; a row of the required length is returned with its        *)
(* interval unchanged, whatever auto_resize is.                             *)
C5_FailsIffNoUsableAnchor ==
    (IsSeqString /\ pc = "ready" /\ Called /\ 0 <= Idx /\ Idx < BedLen(df)) =>
        /\ ret.kind = "ConfigurationError" <=>
              /\ ~IsNone(cfg.required_seq_len)
              /\ RowLength(Idx) # Val(cfg.required_seq_len)
              /\ IsNone(cfg.auto_resize) \/ Val(cfg.auto_resize) \notin {"start", "end", "center"}
        /\ ret.kind \in {"ok", "ConfigurationError"}
        /\ ret.kind # "ok" => ret = [kind |-> ret.kind]
        /\ (~IsNone(cfg.required_seq_len) /\ RowLength(Idx) = Val(cfg.required_seq_len)) =>
              /\ ret.kind = "ok"
              /\ ret.ranges.start = RowAt(Idx).cols[2]
              /\ ret.ranges.stop = RowAt(Idx).cols[3]

C5_Witness ==
    /\ IsSeqString /\ pc = "ready" /\ lastIdx = Some(1) /\ BedLen(df) = 2
    /\ cfg.required_seq_len = Some(3) /\ cfg.auto_resize = None
    /\ RowLength(0) = 3 /\ RowLength(1) = 2
    /\ ~IsNone(first) /\ first[1].idx = 0 /\ first[1].ret.kind = "ok"
    /\ ret = [kind |-> "ConfigurationError"]

C7_StringAlphabetResolved ==
    (IsSeq /\ pc # "new" /\ tsv # <<>>) => (pc = "ready" /\ alphabet = cfg.alphabet.items)

(* C8. get(index) does not depend on the calls made before it: a call with  *)
(* the index of the first call of the dataset, the one that made the        *)
(* extractor, ends as that first call did, whatever calls were made in      *)
(* between; a returned record carries the row's labels and id = str(index). *)
C8_SameOutcomeAsFirstCall ==
    ((IsSeqString \/ IsSeq) /\ ~IsNone(first)) =>
        /\ lastIdx = Some(first[1].idx) => ret = first[1].ret
        /\ ret.kind = "ok" =>
              /\ ret.ranges.id = Str(Idx)
              /\ ret.targets = SubSeq(df[ILoc(Len(df), Idx)].cols, 4,
                                      Len(df[ILoc(Len(df), Idx)].cols))

C8_Witness ==
    /\ IsSeqString /\ cfg.force_upper
    /\ ~IsNone(first) /\ first[1].idx = 0 /\ first[1].ret.kind = "ok"
    /\ prevKind = "IndexError"
    /\ lastIdx = Some(0) /\ ret.kind = "ok" /\ ret.ranges.id = <<"0">>

(* C9. In one thread the extractor is absent after construction, is made    *)
(* during the first get call, whether that call succeeds or not, and is     *)
(* never made again: it is made exactly once and every extraction goes      *)
(* through it.                                                              *)
C9_ExtractorMadeOnce ==
    (IsSeqString \/ IsSeq) =>
        /\ IsNone(first) => (IsNone(fasta_extractors) /\ nConstructed = 0)
        /\ ~IsNone(first) =>
              (~IsNone(fasta_extractors) /\ fasta_extractors[1].id = 1 /\ nConstructed = 1)
        /\ usedHandle \in {None, Some(1)}

C9_Witness ==
    /\ IsSeqString
    /\ ~IsNone(first) /\ first[1].ret.kind = "IndexError"
    /\ prevKind = "ok" /\ ret.kind = "ok"
    /\ usedHandle = Some(1) /\ nConstructed = 1

(* C10. With threads and no lock, every thread that found the extractor     *)
(* absent makes one, so the extractor is made as many times as threads      *)
(* found it absent, and the one made last replaces the ones before it.      *)
C10_EveryThreadThatSawNoneConstructs ==
    /\ nConstructed = Cardinality({t \in Threads : thr[t].built > 0})
    /\ \A t \in Threads : (thr[t].sawNone /\ thr[t].pc \in {"body", "done"}) => thr[t].built > 0
    /\ \A t \in Threads : thr[t].built > 0 => thr[t].sawNone
    /\ ~IsNone(fasta_extractors) => fasta_extractors[1].id = nConstructed

C10_Witness ==
    \E t1, t2 \in Threads :
        /\ t1 # t2
        /\ thr[t1].sawNone /\ thr[t2].sawNone
        /\ thr[t1].built = 1 /\ thr[t2].built = 2
        /\ nConstructed = 2
        /\ fasta_extractors[1].id = 2

=============================================================================
